---- MODULE Spec2Model ----
(***************************************************************************)
(* State machine of eel's BlockList (src/src/block-list.ts) together with  *)
(* the Block / content-node objects it owns (src/src/block.ts) and the     *)
(* part of the host DOM it drives: the children of the mount element, the  *)
(* parent link of every content node, the pending focus timers and the     *)
(* element holding focus.                                                  *)
(*                                                                         *)
(* Blocks and content nodes are objects with identity: block b is the b-th *)
(* Block ever constructed, content node n the n-th Text/H1/H2/H3 ever      *)
(* constructed.  Array indices are 0-based as in the source; -1 is         *)
(* indexOf's "absent" and Null stands for null/undefined.                  *)
(***************************************************************************)
EXTENDS Integers, Sequences, FiniteSets, TLC

\* Bounds of the model.
MaxBlocks == 3      \* Blocks ever constructed
MaxNodes  == 3      \* content nodes ever constructed
MaxTimers == 2      \* focus timers pending at once
MaxDepth  == 2      \* nesting depth of a DOM node below a content node
MaxEditNodes == 4   \* content nodes ever constructed in a typing session

\* null / undefined (object identities start at 1).
Null == 0

\* The content classes of block.ts: Text, and the three heading classes.
Headings == {"H1", "H2", "H3"}
Variants == {"Text"} \cup Headings

\* A type tag that reports every content node as Text.
NodeTypeOf_AllText(variant) == "Text"

\* NodeType of a content node (block.ts: Text.type, makeHeadingClass.type).
NodeTypeOf(variant) == IF variant \in Headings THEN "Heading" ELSE "Text"

\* Values of Node.textContent handed to the handlers.
Texts == {"", " ", "#", "# ", "## ", "### ", "# a"}

VARIABLES
    blocks,          \* BlockList.blocks: sequence of block ids, top to bottom
    activeBlock,     \* BlockList.activeBlock: a block id, or Null
    mountChildren,   \* children of mountElement, in DOM order (block ids)
    blockOfDOMNode,  \* keys of the WeakMap: the blocks whose domNode is mapped
    child,           \* child[b]: the content node Block b holds
    activeClass,     \* activeClass[b]: b.domNode carries "eelBlock--active"
    nodes,           \* nodes[n]: [variant, parent, parentNode] of content node n
    timers,          \* pending setTimeout callbacks: content nodes to focus
    focus            \* the content node holding DOM focus, or Null

vars == <<blocks, activeBlock, mountChildren, blockOfDOMNode, child,
          activeClass, nodes, timers, focus>>

\* The program state as one value, threaded through the methods below.
Cur == [blocks |-> blocks, activeBlock |-> activeBlock,
        mountChildren |-> mountChildren, blockOfDOMNode |-> blockOfDOMNode,
        child |-> child, activeClass |-> activeClass, nodes |-> nodes,
        timers |-> timers, focus |-> focus, raised |-> FALSE]

----------------------------------------------------------------------------
\* JavaScript arrays (0-based).

\* Array.prototype.indexOf
IndexOf(s, x) ==
    IF \E i \in 1..Len(s) : s[i] = x
    THEN (CHOOSE i \in 1..Len(s) : s[i] = x /\ \A j \in 1..(i-1) : s[j] # x) - 1
    ELSE -1

\* s[i]: undefined outside 0..length-1
At(s, i) == IF i >= 0 /\ i < Len(s) THEN s[i + 1] ELSE Null

\* Array.prototype.splice's clamping of its start argument
SpliceStart(len, start) ==
    IF start < 0 THEN (IF len + start < 0 THEN 0 ELSE len + start)
    ELSE IF start > len THEN len ELSE start

\* s.splice(start, 1)
SpliceDelete(s, start) ==
    LET k == SpliceStart(Len(s), start)
    IN  SubSeq(s, 1, k) \o SubSeq(s, k + 2, Len(s))

\* A splice that ignores its start argument and pushes instead.
SpliceInsert_Appends(s, start, x) == Append(s, x)

\* s.splice(start, 0, x)
SpliceInsert(s, start, x) ==
    LET k == SpliceStart(Len(s), start)
    IN  SubSeq(s, 1, k) \o <<x>> \o SubSeq(s, k + 1, Len(s))

\* s.shift() and s.pop(), as the array they leave
Shift(s) == IF Len(s) = 0 THEN s ELSE Tail(s)
Pop(s)   == IF Len(s) = 0 THEN s ELSE SubSeq(s, 1, Len(s) - 1)

----------------------------------------------------------------------------
\* The host DOM.

\* A DOM node: a block's root div, a content node's div, a node nested
\* `depth` levels inside a content node, the mount element, or a node
\* outside the editor.
Surface(kind, id, depth) == [kind |-> kind, id |-> id, depth |-> depth]
NoSurface == Surface("none", 0, 0)

Surfaces(S) ==
    {Surface("block", b, 0) : b \in 1..Len(S.child)}
    \cup {Surface("node", n, d) : n \in 1..Len(S.nodes), d \in 0..MaxDepth}
    \cup {Surface("mount", 0, 0), Surface("outside", 0, 0)}

\* node.parentNode
ParentNode(S, s) ==
    CASE s.kind = "node" /\ s.depth > 0 -> Surface("node", s.id, s.depth - 1)
      [] s.kind = "node" /\ s.depth = 0 ->
            IF S.nodes[s.id].parentNode # Null
            THEN Surface("block", S.nodes[s.id].parentNode, 0)
            ELSE NoSurface
      [] s.kind = "block" ->
            IF IndexOf(S.mountChildren, s.id) >= 0
            THEN Surface("mount", 0, 0) ELSE NoSurface
      [] s.kind = "mount" -> Surface("outside", 0, 0)
      [] OTHER -> NoSurface

\* Whether content node n is connected to the document.
Connected(S, n) ==
    /\ n # Null
    /\ S.nodes[n].parentNode # Null
    /\ IndexOf(S.mountChildren, S.nodes[n].parentNode) >= 0

\* mountElement.appendChild(b.domNode)
AppendChild(m, b) == Append(m, b)

\* mountElement.insertBefore(b.domNode, ref): ref null appends; a ref that
\* is not a child of the mount element makes the DOM throw (InsertRaises).
InsertRaises(m, ref) == ref # Null /\ IndexOf(m, ref) < 0

\* An insertion that always appends, as appendChild would.
InsertBefore_Appends(m, b, ref) == Append(m, b)

InsertBefore(m, b, ref) ==
    IF ref = Null THEN Append(m, b)
    ELSE IF IndexOf(m, ref) < 0 THEN m
    ELSE SpliceInsert(m, IndexOf(m, ref), b)

\* b.domNode.remove(): detaches the node from its parent, if it has one.
RemoveChild(m, b) == SelectSeq(m, LAMBDA x : x # b)

\* The element holding focus loses it when it leaves the document.
FocusAfter(S) == IF Connected(S, S.focus) THEN S.focus ELSE Null

----------------------------------------------------------------------------
\* BlockList (block-list.ts).  Each method maps the state before the call to
\* the state after it; `raised` records an uncaught TypeError, which ends
\* the handler where it is thrown.

\* A lookup without the walk up the ancestors.
FindNearestBlockOfDOMNode_NoWalk(S, s) ==
    IF s.kind = "block" /\ s.id \in S.blockOfDOMNode THEN s.id ELSE Null

\* findNearestBlockOfDOMNode(node): the node itself if mapped, else the
\* nearest mapped ancestor, else null.
RECURSIVE FindNearestBlockOfDOMNode(_, _)
FindNearestBlockOfDOMNode(S, s) ==
    IF s.kind = "block" /\ s.id \in S.blockOfDOMNode THEN s.id
    ELSE IF ParentNode(S, s) = NoSurface THEN Null
    ELSE FindNearestBlockOfDOMNode(S, ParentNode(S, s))

\* A setActiveBlock that forgets to deactivate the block it replaces.
Deactivate_Skipped(S) == S.activeClass

\* Block.setActive(false) on the current active block, if there is one.
Deactivate(S) ==
    IF S.activeBlock # Null
    THEN [S.activeClass EXCEPT ![S.activeBlock] = FALSE]
    ELSE S.activeClass

\* setActiveBlock(block).  With block undefined, `block.setActive(true)`
\* throws after activeBlock has been overwritten and before the timer is set.
SetActiveBlock(S, block) ==
    IF block = Null
    THEN [S EXCEPT !.activeClass = Deactivate(S),
                   !.activeBlock = Null,
                   !.raised = TRUE]
    ELSE [S EXCEPT !.activeClass = [Deactivate(S) EXCEPT ![block] = TRUE],
                   !.activeBlock = block,
                   !.timers = Append(@, S.child[block])]

\* new Block(): a root div holding a fresh Text content node.
NewBlock(S) ==
    LET b == Len(S.child) + 1
        n == Len(S.nodes) + 1
    IN  [S EXCEPT !.child = Append(@, n),
                  !.activeClass = Append(@, FALSE),
                  !.nodes = Append(@, [variant |-> "Text", parent |-> b,
                                        parentNode |-> b])]

\* createActiveBlock(): the block it returns is Len(result.child).
CreateActiveBlock(S) ==
    LET S1 == SetActiveBlock(NewBlock(S), Len(S.child) + 1)
    IN  [S1 EXCEPT !.blockOfDOMNode = @ \cup {Len(S.child) + 1}]

\* constructor(mountElement)
Constructor(S) ==
    LET S1 == CreateActiveBlock(S)
        b  == Len(S1.child)
    IN  [S1 EXCEPT !.activeBlock = b,
                   !.blocks = Append(@, b),
                   !.mountChildren = AppendChild(@, b)]

\* addBlockBelowCurrent()
AddBlockBelowCurrent(S) ==
    LET previouslyActiveBlock == S.activeBlock
        indexOfActiveBlock == IndexOf(S.blocks, previouslyActiveBlock)
        S1 == CreateActiveBlock(S)
        newBlock == Len(S1.child)
        ref == At(S1.blocks, indexOfActiveBlock + 1)
        isLast == previouslyActiveBlock = At(S1.blocks, Len(S1.blocks) - 1)
    IN  IF ~isLast /\ InsertRaises(S1.mountChildren, ref)
        THEN [S1 EXCEPT !.raised = TRUE]
        ELSE [S1 EXCEPT
                !.mountChildren =
                    IF isLast THEN AppendChild(@, newBlock)
                    ELSE InsertBefore(@, newBlock, ref),
                !.blocks =
                    IF indexOfActiveBlock = Len(S1.blocks) - 1
                    THEN Append(@, newBlock)
                    ELSE SpliceInsert(@, indexOfActiveBlock + 1, newBlock)]

\* An arrowUp whose guard lets index 0 through.
ArrowUp_NoBoundary(S) ==
    LET activeBlockIndex == IndexOf(S.blocks, S.activeBlock)
    IN  IF activeBlockIndex >= 0
        THEN SetActiveBlock(S, At(S.blocks, activeBlockIndex - 1))
        ELSE S

\* arrowUp()
ArrowUp(S) ==
    LET activeBlockIndex == IndexOf(S.blocks, S.activeBlock)
    IN  IF activeBlockIndex >= 1
        THEN SetActiveBlock(S, At(S.blocks, activeBlockIndex - 1))
        ELSE S

\* arrowDown()
ArrowDown(S) ==
    LET activeBlockIndex == IndexOf(S.blocks, S.activeBlock)
    IN  IF activeBlockIndex < Len(S.blocks) - 1
        THEN SetActiveBlock(S, At(S.blocks, activeBlockIndex + 1))
        ELSE S

\* A guard that is off by one: `length < 1`.
IsOnlyBlock_OffByOne(S) == Len(S.blocks) < 1

\* The guard of deleteBlockIfNotLast.
IsOnlyBlock(S) == Len(S.blocks) <= 1

\* A reassignment that takes the block at `index`, the successor, in
\* every case.
NextActiveAfterDelete_Successor(bl, index) == At(bl, index)

\* The block deleteBlockIfNotLast makes active, read from the array `bl`
\* left by the removal; `index` is the deleted block's index before it.
NextActiveAfterDelete(bl, index) ==
    IF index = 0 THEN At(bl, 0) ELSE At(bl, index - 1)

\* A removal that pops whenever the block is not the first.
BlocksAfterDelete_Pops(bl, index) ==
    IF index = 0 THEN Shift(bl) ELSE Pop(bl)

\* The array deleteBlockIfNotLast leaves: shift, pop or splice(index, 1).
BlocksAfterDelete(bl, index) ==
    IF index = 0 THEN Shift(bl)
    ELSE IF index = Len(bl) - 1 THEN Pop(bl)
    ELSE SpliceDelete(bl, index)

\* deleteBlockIfNotLast(block)
DeleteBlockIfNotLast(S, block) ==
    IF IsOnlyBlock(S) THEN S
    ELSE
        LET index == IndexOf(S.blocks, block)
            S1 == [S EXCEPT !.mountChildren = RemoveChild(@, block)]
            S2 == [S1 EXCEPT !.focus = FocusAfter(S1),
                             !.blocks = BlocksAfterDelete(@, index)]
        IN  SetActiveBlock(S2, NextActiveAfterDelete(S2.blocks, index))

\* A replacement that adds the new node and leaves the old one in place.
ReplaceBlockChild_KeepsOld(S, block, variant) ==
    LET n == Len(S.nodes) + 1
    IN  [S EXCEPT
            !.nodes = Append(@, [variant |-> variant, parent |-> block,
                                 parentNode |-> block]),
            !.child = [@ EXCEPT ![block] = n],
            !.timers = Append(@, n)]

\* A replacement that also makes the block the active one.
ReplaceBlockChild_Activates(S, block, variant) ==
    LET oldChild == S.child[block]
        n == Len(S.nodes) + 1
        S1 == [S EXCEPT
                !.nodes = Append([@ EXCEPT ![oldChild].parentNode = Null],
                                 [variant |-> variant, parent |-> block,
                                  parentNode |-> block]),
                !.child = [@ EXCEPT ![block] = n]]
    IN  SetActiveBlock([S1 EXCEPT !.focus = FocusAfter(S1)], block)

\* replaceBlockChild(block, child), child a fresh node of class `variant`.
ReplaceBlockChild(S, block, variant) ==
    LET oldChild == S.child[block]
        n == Len(S.nodes) + 1
        S1 == [S EXCEPT
                !.nodes = Append([@ EXCEPT ![oldChild].parentNode = Null],
                                 [variant |-> variant, parent |-> block,
                                  parentNode |-> block]),
                !.child = [@ EXCEPT ![block] = n]]
    IN  [S1 EXCEPT !.focus = FocusAfter(S1),
                   !.timers = Append(@, n)]

\* An emptiness test that trims the text first.
IsEmptyText_Trimmed(textContent) == textContent \in {"", " "}

\* The test of backspace for an empty target: textContent === "".
IsEmptyText(textContent) == textContent = ""

\* A backspace without the test for empty text.
Backspace_AnyText(S, target, textContent) ==
    LET block == FindNearestBlockOfDOMNode(S, target)
    IN  IF block = Null THEN S
        ELSE IF NodeTypeOf(S.nodes[S.child[block]].variant) = "Heading"
             THEN ReplaceBlockChild(S, block, "Text")
        ELSE DeleteBlockIfNotLast(S, block)

\* backspace(target), textContent being target.textContent.
Backspace(S, target, textContent) ==
    LET block == FindNearestBlockOfDOMNode(S, target)
    IN  IF block = Null THEN S
        ELSE IF ~IsEmptyText(textContent) THEN S
        ELSE IF NodeTypeOf(S.nodes[S.child[block]].variant) = "Heading"
             THEN ReplaceBlockChild(S, block, "Text")
        ELSE DeleteBlockIfNotLast(S, block)

\* A prefix table that trims the text before comparing it.
HeadingFor_Trimmed(textContent) ==
    IF textContent \in {"# ", "#"} THEN "H1"
    ELSE IF textContent = "## " THEN "H2"
    ELSE IF textContent = "### " THEN "H3"
    ELSE "none"

\* The prefix table of handleMutation: the class to construct, or "none".
HeadingFor(textContent) ==
    IF textContent = "# " THEN "H1"
    ELSE IF textContent = "## " THEN "H2"
    ELSE IF textContent = "### " THEN "H3"
    ELSE "none"

\* A handleMutation that resets the block to Text on any other text.
HandleMutation_Resets(S, target, textContent) ==
    LET block == FindNearestBlockOfDOMNode(S, target)
    IN  IF block = Null THEN S
        ELSE IF HeadingFor(textContent) = "none"
             THEN ReplaceBlockChild(S, block, "Text")
        ELSE ReplaceBlockChild(S, block, HeadingFor(textContent))

\* handleMutation(target)
HandleMutation(S, target, textContent) ==
    LET block == FindNearestBlockOfDOMNode(S, target)
    IN  IF block = Null THEN S
        ELSE IF HeadingFor(textContent) = "none" THEN S
        ELSE ReplaceBlockChild(S, block, HeadingFor(textContent))

\* A click listener without the test for a missing block.
Click_Unguarded(S, target) ==
    SetActiveBlock(S, FindNearestBlockOfDOMNode(S, target))

\* The click listener of the editor: the nearest block becomes active.
Click(S, target) ==
    LET nearestBlock == FindNearestBlockOfDOMNode(S, target)
    IN  IF nearestBlock # Null THEN SetActiveBlock(S, nearestBlock) ELSE S

\* A focus timer that moves focus to its node wherever the node is.
RunTimer_AlwaysFocuses(S) ==
    [S EXCEPT !.timers = Tail(@), !.focus = Head(S.timers)]

\* A focus timer firing: text.domNode.focus(), which moves focus only to an
\* element connected to the document.
RunTimer(S) ==
    [S EXCEPT !.timers = Tail(@),
              !.focus = IF Connected(S, Head(S.timers))
                        THEN Head(S.timers) ELSE @]

----------------------------------------------------------------------------
\* The state machine.

Empty == [blocks |-> <<>>, activeBlock |-> Null, mountChildren |-> <<>>,
          blockOfDOMNode |-> {}, child |-> <<>>, activeClass |-> <<>>,
          nodes |-> <<>>, timers |-> <<>>, focus |-> Null, raised |-> FALSE]

\* Whether the step taken leads to state R, the result of a call.
StepTo(R) ==
    /\ blocks' = R.blocks
    /\ activeBlock' = R.activeBlock
    /\ mountChildren' = R.mountChildren
    /\ blockOfDOMNode' = R.blockOfDOMNode
    /\ child' = R.child
    /\ activeClass' = R.activeClass
    /\ nodes' = R.nodes
    /\ timers' = R.timers
    /\ focus' = R.focus

Within(S) ==
    /\ Len(S.child) <= MaxBlocks
    /\ Len(S.nodes) <= MaxNodes
    /\ Len(S.timers) <= MaxTimers

\* The step to state S, the result of one call.
Commit(S) ==
    /\ Within(S)
    /\ blocks' = S.blocks
    /\ activeBlock' = S.activeBlock
    /\ mountChildren' = S.mountChildren
    /\ blockOfDOMNode' = S.blockOfDOMNode
    /\ child' = S.child
    /\ activeClass' = S.activeClass
    /\ nodes' = S.nodes
    /\ timers' = S.timers
    /\ focus' = S.focus

Init ==
    LET S == Constructor(Empty)
    IN  /\ blocks = S.blocks
        /\ activeBlock = S.activeBlock
        /\ mountChildren = S.mountChildren
        /\ blockOfDOMNode = S.blockOfDOMNode
        /\ child = S.child
        /\ activeClass = S.activeClass
        /\ nodes = S.nodes
        /\ timers = S.timers
        /\ focus = S.focus

\* The listeners sit on the mount element (Input.addHotKeyTo, the click
\* listener), so a key or pointer event reaches them only from a node inside
\* it: the mount element itself or a node with it as an ancestor.
RECURSIVE InsideMount(_, _)
InsideMount(S, s) ==
    IF s.kind = "mount" THEN TRUE
    ELSE IF ParentNode(S, s) = NoSurface THEN FALSE
    ELSE InsideMount(S, ParentNode(S, s))

EventTargets(S) == {s \in Surfaces(S) : InsideMount(S, s)}

\* The mutation observer watches the subtree of the mount element; a batch of
\* records may also name a content node that an earlier record of the same
\* batch has had replaced.
MutationTargets(S) ==
    EventTargets(S)
    \cup {s \in Surfaces(S) : s.kind = "node" /\ S.nodes[s.id].parentNode = Null}

OnEnter == Commit(AddBlockBelowCurrent(Cur))

OnArrowUp == Commit(ArrowUp(Cur))

OnArrowDown == Commit(ArrowDown(Cur))

OnClick == \E s \in EventTargets(Cur) : Commit(Click(Cur, s))

OnBackspace ==
    \E s \in EventTargets(Cur), t \in Texts : Commit(Backspace(Cur, s, t))

OnMutation ==
    \E s \in MutationTargets(Cur), t \in Texts :
        Commit(HandleMutation(Cur, s, t))

OnTimer == timers # <<>> /\ Commit(RunTimer(Cur))

Next ==
    \/ OnEnter
    \/ OnArrowUp
    \/ OnArrowDown
    \/ OnClick
    \/ OnBackspace
    \/ OnMutation
    \/ OnTimer

Spec == Init /\ [][Next]_vars

\* A typing session: the user only types (Enter, Backspace, characters), so
\* the events are those of the keyboard and of the mutation observer, and
\* more content nodes are constructed than in Spec.
WithinEdit(S) ==
    /\ Len(S.child) <= MaxBlocks
    /\ Len(S.nodes) <= MaxEditNodes
    /\ Len(S.timers) <= MaxTimers

EditEnter ==
    LET R == AddBlockBelowCurrent(Cur) IN WithinEdit(R) /\ StepTo(R)

EditBackspace ==
    \E s \in EventTargets(Cur), t \in Texts :
        LET R == Backspace(Cur, s, t) IN WithinEdit(R) /\ StepTo(R)

EditMutation ==
    \E s \in MutationTargets(Cur), t \in Texts :
        LET R == HandleMutation(Cur, s, t) IN WithinEdit(R) /\ StepTo(R)

EditTimer ==
    timers # <<>> /\ LET R == RunTimer(Cur) IN WithinEdit(R) /\ StepTo(R)

NextEdit ==
    \/ EditEnter
    \/ EditBackspace
    \/ EditMutation
    \/ EditTimer

SpecEdit == Init /\ [][NextEdit]_vars

\* A keyboard session: every event comes from the keyboard, so it is
\* delivered at the element holding focus and only while that element is
\* inside the mount element; the characters typed change the text of the
\* focused content node or of a node nested in it.  The 20 ms focus timers
\* run between the events in any interleaving.
HasFocus == focus # Null /\ InsideMount(Cur, Surface("node", focus, 0))

KeyEnter == HasFocus /\ Commit(AddBlockBelowCurrent(Cur))

KeyArrowUp == HasFocus /\ Commit(ArrowUp(Cur))

KeyArrowDown == HasFocus /\ Commit(ArrowDown(Cur))

KeyBackspace ==
    /\ HasFocus
    /\ \E t \in Texts : Commit(Backspace(Cur, Surface("node", focus, 0), t))

KeyTyped ==
    /\ HasFocus
    /\ \E d \in 0..MaxDepth, t \in Texts :
          Commit(HandleMutation(Cur, Surface("node", focus, d), t))

KeyTimer == timers # <<>> /\ Commit(RunTimer(Cur))

NextKeys ==
    \/ KeyEnter
    \/ KeyArrowUp
    \/ KeyArrowDown
    \/ KeyBackspace
    \/ KeyTyped
    \/ KeyTimer

SpecKeys == Init /\ [][NextKeys]_vars

\* Direct calls: the public methods of BlockList called by a host with any
\* node as argument, among them a node it still holds of a block that has
\* been deleted.  A call that throws ends where it throws and leaves what it
\* has written so far.
CallEnter == Commit(AddBlockBelowCurrent(Cur))

CallArrowUp == Commit(ArrowUp(Cur))

CallArrowDown == Commit(ArrowDown(Cur))

CallBackspace ==
    \E s \in Surfaces(Cur), t \in Texts : Commit(Backspace(Cur, s, t))

CallHandleMutation ==
    \E s \in Surfaces(Cur), t \in Texts : Commit(HandleMutation(Cur, s, t))

CallTimer == timers # <<>> /\ Commit(RunTimer(Cur))

NextCalls ==
    \/ CallEnter
    \/ CallArrowUp
    \/ CallArrowDown
    \/ CallBackspace
    \/ CallHandleMutation
    \/ CallTimer

SpecCalls == Init /\ [][NextCalls]_vars

----------------------------------------------------------------------------
\* Properties.

\* The Blocks constructed so far, and those carrying the active class.
Created == 1..Len(child)
ActiveBlocks == {b \in Created : activeClass[b]}

\* Every listed block's root div is a child of the mount element, so the
\* reference node handed to insertBefore is always one of its children.
ListedAreMounted ==
    \A i \in 1..Len(blocks) : IndexOf(mountChildren, blocks[i]) >= 0

\* The content class of block b in state S.
VariantOf(S, b) == S.nodes[S.child[b]].variant

\* The blocks of S carrying the active class.
ActiveIn(S) == {b \in 1..Len(S.child) : S.activeClass[b]}

\* The blocks that were listed and have been deleted: every Block is put in
\* the list by the call that constructs it.
Deleted == {b \in Created : IndexOf(blocks, b) < 0}

\* Whether S and T agree on everything but the pending timers and focus.
SameList(S, T) ==
    /\ S.blocks = T.blocks
    /\ S.activeBlock = T.activeBlock
    /\ S.mountChildren = T.mountChildren
    /\ S.blockOfDOMNode = T.blockOfDOMNode
    /\ S.child = T.child
    /\ S.activeClass = T.activeClass
    /\ S.nodes = T.nodes

\* s without its element x.
Without(s, x) == SelectSeq(s, LAMBDA y : y # x)

\* C1: the block list holds at least one block in every reachable state, and
\* deleteBlockIfNotLast removes nothing from a list of one block.
C1_NeverEmpty ==
    /\ Len(blocks) >= 1
    /\ Len(blocks) <= 1 =>
          \A B \in Created : DeleteBlockIfNotLast(Cur, B).blocks = blocks

\* C1 witness: a block has been deleted, the list is down to one Text block,
\* and a backspace on its empty surface leaves it in the list.
C1_Witness ==
    /\ Len(blocks) = 1
    /\ Deleted # {}
    /\ VariantOf(Cur, blocks[1]) = "Text"
    /\ Backspace(Cur, Surface("node", child[blocks[1]], 0), "").blocks = blocks

\* C2: exactly one Block, among all ever constructed, carries the active
\* class in every reachable state; and setActiveBlock(block) leaves `block`
\* as the one block carrying it.
C2_ExactlyOneActive ==
    /\ Cardinality(ActiveBlocks) = 1
    /\ \A b \in Created : ActiveIn(SetActiveBlock(Cur, b)) = {b}

\* C2 witness: the active class has moved off the newest block, and a deleted
\* block no longer carries it.
C2_Witness ==
    /\ Deleted # {}
    /\ Len(blocks) = 2
    /\ activeClass[blocks[1]]
    /\ blocks[1] # Len(child)

C4_MountMatchesBlocks == mountChildren = blocks

\* C4 witness: after an insertion in the middle and the deletion of the
\* first block, the newest block heads the list and the DOM.
C4_Witness ==
    /\ Len(blocks) = 2
    /\ blocks[1] = MaxBlocks
    /\ mountChildren[1] = MaxBlocks
    /\ 1 \in Deleted

\* C5: the Blocks with an entry in blockOfDOMNode are exactly the Blocks of
\* the list: every listed block is mapped, no deleted block is.
C5_IndexMatchesBlocks ==
    blockOfDOMNode = {blocks[i] : i \in 1..Len(blocks)}

\* C6: on a list of two or more blocks, deleteBlockIfNotLast(B) for B at
\* index i removes exactly B, keeps the order of the others, and makes active
\* the new first block if i = 0 and B's former predecessor (now at index
\* i - 1) otherwise; a backspace on B's empty Text surface does the same.
C6_DeleteReassignsActive ==
    \A B \in Created :
        (Len(blocks) >= 2 /\ IndexOf(blocks, B) >= 0) =>
            LET i == IndexOf(blocks, B)
                R == DeleteBlockIfNotLast(Cur, B)
            IN  /\ R.blocks = Without(blocks, B)
                /\ Len(R.blocks) = Len(blocks) - 1
                /\ ~R.raised
                /\ R.activeBlock = IF i = 0 THEN R.blocks[1] ELSE R.blocks[i]
                /\ i > 0 => R.activeBlock = blocks[i]
                /\ i = 0 => R.activeBlock = blocks[2]
                /\ VariantOf(Cur, B) = "Text" =>
                     Backspace(Cur, Surface("node", child[B], 0), "") = R

\* C6 witness: a deletion has just run on a three-block list: two blocks are
\* left, the first of them is active and its focus timer is the latest one.
C6_Witness ==
    /\ Len(blocks) = 2
    /\ Cardinality(Deleted) = 1
    /\ activeBlock = blocks[1]
    /\ timers # <<>>
    /\ timers[Len(timers)] = child[blocks[1]]

\* C7 as stated: with one block in the list, a backspace step on a node of
\* that block leaves the list, the active block and the block's content class
\* unchanged, whatever the class and the text.
C7_SoleBlockBackspaceNoOp ==
    [][\A s \in EventTargets(Cur), t \in Texts :
          ( /\ Len(blocks) = 1
            /\ FindNearestBlockOfDOMNode(Cur, s) = blocks[1]
            /\ StepTo(Backspace(Cur, s, t)) )
          => /\ blocks' = blocks
             /\ activeBlock' = activeBlock
             /\ nodes'[child'[blocks[1]]].variant = VariantOf(Cur, blocks[1])
      ]_vars

\* C7 amended: with one block in the list, a backspace on a node of that
\* block never removes it and leaves the list and the active block unchanged;
\* the content class is unchanged too, except that a heading whose text is
\* empty becomes Text.  A Text block, or any non-empty text, changes nothing.
C7_SoleBlockSurvives ==
    \A s \in Surfaces(Cur), t \in Texts :
        (Len(blocks) = 1 /\ FindNearestBlockOfDOMNode(Cur, s) = blocks[1]) =>
            LET R == Backspace(Cur, s, t)
                b == blocks[1]
                demoted == VariantOf(Cur, b) \in Headings /\ t = ""
            IN  /\ R.blocks = blocks
                /\ R.mountChildren = mountChildren
                /\ R.activeBlock = activeBlock
                /\ ~R.raised
                /\ VariantOf(R, b) =
                     IF demoted THEN "Text" ELSE VariantOf(Cur, b)
                /\ ~demoted => R = Cur

\* C7 witness: the only block ever constructed has been promoted and then
\* demoted by a backspace, with the list at length one throughout.
C7_Witness ==
    /\ Len(blocks) = 1
    /\ Len(child) = 1
    /\ Len(nodes) = 3
    /\ nodes[2].variant \in Headings
    /\ child[blocks[1]] = 3
    /\ VariantOf(Cur, blocks[1]) = "Text"

\* C8: with the active block at index i, addBlockBelowCurrent() grows the
\* list by one, puts the new block at index i + 1 (right after the block
\* that was active) with the others in their order, and leaves the new block
\* active.
C8_InsertBelowActive ==
    IndexOf(blocks, activeBlock) >= 0 =>
        LET i == IndexOf(blocks, activeBlock)
            R == AddBlockBelowCurrent(Cur)
            new == Len(child) + 1
        IN  /\ Len(R.blocks) = Len(blocks) + 1
            /\ IndexOf(R.blocks, new) = i + 1
            /\ IndexOf(R.blocks, activeBlock) = i
            /\ Without(R.blocks, new) = blocks
            /\ R.activeBlock = new
            /\ ~R.raised

\* C8 witness: the newest block sits in the middle of a three-block list,
\* right below the block that was active, and is the active block.
C8_Witness ==
    /\ Len(blocks) = 3
    /\ blocks[2] = Len(child)
    /\ activeBlock = blocks[2]
    /\ activeClass[blocks[2]]

\* The blocks whose content class differs between S and R.
Changed(S, R) ==
    {b \in 1..Len(S.child) : VariantOf(R, b) # VariantOf(S, b)}

\* The calls that never touch a content node.
C9_OtherCallsKeepVariants ==
    /\ Changed(Cur, AddBlockBelowCurrent(Cur)) = {}
    /\ Changed(Cur, ArrowUp(Cur)) = {}
    /\ Changed(Cur, ArrowDown(Cur)) = {}
    /\ \A s \in Surfaces(Cur) : Changed(Cur, Click(Cur, s)) = {}
    /\ timers # <<>> => Changed(Cur, RunTimer(Cur)) = {}

\* A backspace changes a content class only from a heading to Text, and only
\* when the text is empty.
C9_BackspaceOnlyDemotes ==
    \A s \in Surfaces(Cur), t \in Texts :
        \A b \in Changed(Cur, Backspace(Cur, s, t)) :
            /\ t = ""
            /\ VariantOf(Cur, b) \in Headings
            /\ VariantOf(Backspace(Cur, s, t), b) = "Text"

\* C9 as stated: in every step a content class changes only from Text to a
\* heading or from a heading to Text; no step takes a block from one heading
\* level to another, and none re-promotes a heading by replacing its
\* content node with another heading.
C9_OnlyTextHeadingEdges ==
    [][\A b \in Created :
          LET old == VariantOf(Cur, b)
              new == nodes'[child'[b]].variant
          IN  /\ new # old =>
                    \/ old = "Text" /\ new \in Headings
                    \/ old \in Headings /\ new = "Text"
              /\ (old \in Headings /\ new \in Headings) => child'[b] = child[b]
      ]_vars

\* C9 amended: a content class changes only (a) to the heading level of the
\* prefix, when onContentMutation reads exactly "# ", "## " or "### " on a
\* node of the block, whatever the block's class was (Text or a heading of
\* any level, which is then re-promoted), and (b) from a heading to Text, on
\* a backspace with empty content.  No other call changes it.
C9_EdgesOfTheCode ==
    /\ C9_OtherCallsKeepVariants
    /\ C9_BackspaceOnlyDemotes
    /\ \A s \in Surfaces(Cur), t \in Texts :
          LET R == HandleMutation(Cur, s, t)
          IN  \A c \in Changed(Cur, R) :
                /\ c = FindNearestBlockOfDOMNode(Cur, s)
                /\ \/ t = "# " /\ VariantOf(R, c) = "H1"
                   \/ t = "## " /\ VariantOf(R, c) = "H2"
                   \/ t = "### " /\ VariantOf(R, c) = "H3"

\* C9 witness: one block has gone from Text to one heading level and from
\* there straight to another.
C9_Witness ==
    /\ Len(nodes) = 3
    /\ nodes[2].parent = nodes[3].parent
    /\ nodes[2].variant \in Headings
    /\ nodes[3].variant \in Headings
    /\ nodes[2].variant # nodes[3].variant
    /\ child[nodes[3].parent] = 3

\* C10: when the node of a mutation resolves to a block, the block becomes
\* H1, H2 or H3 exactly when the text is exactly "# ", "## " or "### "; the
\* list and the active block are untouched by it; and for every other text
\* the whole state is unchanged.
C10_ExactPrefixPromotes ==
    \A s \in Surfaces(Cur), t \in Texts :
        LET b == FindNearestBlockOfDOMNode(Cur, s)
            R == HandleMutation(Cur, s, t)
        IN  b # Null =>
              /\ t = "# " => VariantOf(R, b) = "H1"
              /\ t = "## " => VariantOf(R, b) = "H2"
              /\ t = "### " => VariantOf(R, b) = "H3"
              /\ t \in {"# ", "## ", "### "} =>
                    /\ R.child[b] = Len(nodes) + 1
                    /\ R.blocks = blocks
                    /\ R.activeBlock = activeBlock
                    /\ R.mountChildren = mountChildren
                    /\ Changed(Cur, R) \subseteq {b}
              /\ t \notin {"# ", "## ", "### "} => R = Cur

\* C10 witness: the second of two listed blocks has been promoted to H2 by a
\* mutation while the first stayed Text.
C10_Witness ==
    /\ Len(blocks) = 2
    /\ VariantOf(Cur, blocks[2]) = "H2"
    /\ VariantOf(Cur, blocks[1]) = "Text"
    /\ child[blocks[2]] = Len(nodes)

\* C11: for a listed block whose content class is a heading of any level,
\* and any node that resolves to it, a backspace with empty text makes the
\* block Text (through a fresh content node) and removes nothing: the list,
\* its length and the block's index are unchanged, whatever the length.
C11_EmptyHeadingDemotes ==
    \A b \in Created, s \in Surfaces(Cur) :
        ( /\ IndexOf(blocks, b) >= 0
          /\ VariantOf(Cur, b) \in Headings
          /\ FindNearestBlockOfDOMNode(Cur, s) = b ) =>
            LET R == Backspace(Cur, s, "")
            IN  /\ VariantOf(R, b) = "Text"
                /\ R.child[b] = Len(nodes) + 1
                /\ R.blocks = blocks
                /\ Len(R.blocks) = Len(blocks)
                /\ IndexOf(R.blocks, b) = IndexOf(blocks, b)
                /\ R.mountChildren = mountChildren
                /\ ~R.raised

\* C11 witness: in a list of two blocks, one block has been promoted to a
\* heading and then demoted by a backspace; both blocks are still listed.
C11_Witness ==
    /\ Len(blocks) = 2
    /\ Len(nodes) = 4
    /\ nodes[3].variant \in Headings
    /\ nodes[3].parentNode = Null
    /\ nodes[4].variant = "Text"
    /\ nodes[4].parent = nodes[3].parent
    /\ child[nodes[4].parent] = 4
    /\ IndexOf(blocks, nodes[4].parent) >= 0

\* C12: a backspace on a node whose text is not exactly the empty string
\* changes nothing, whatever the node, the class and position of its block:
\* no block is removed, no content class changes, the active block is the
\* same and no focus timer is added.
C12_NonEmptyBackspaceNoOp ==
    \A s \in Surfaces(Cur), t \in Texts \ {""} :
        LET R == Backspace(Cur, s, t)
        IN  /\ R.blocks = blocks
            /\ Changed(Cur, R) = {}
            /\ R.activeBlock = activeBlock
            /\ R.timers = timers
            /\ R = Cur

\* C12 witness: a heading block that is listed but not active, in a list of
\* two, on whose content node a backspace with empty text would change the
\* state, while one with the text " " or "# a" changes nothing.
C12_Witness ==
    \E b \in Created :
        /\ Len(blocks) = 2
        /\ IndexOf(blocks, b) >= 0
        /\ b # activeBlock
        /\ VariantOf(Cur, b) \in Headings
        /\ Backspace(Cur, Surface("node", child[b], 0), "") # Cur
        /\ Backspace(Cur, Surface("node", child[b], 0), " ") = Cur
        /\ Backspace(Cur, Surface("node", child[b], 0), "# a") = Cur

\* C13: with the active block at index i, arrowUp makes the block at i - 1
\* the one active block when i >= 1 and changes nothing when i = 0;
\* arrowDown makes the block at i + 1 the one active block when
\* i < length - 1 and changes nothing when i = length - 1.  Neither changes
\* `blocks`, and once the move has reached a boundary, repeating it leaves
\* the state as it was after the first hit.
C13_MoveActive ==
    LET i   == IndexOf(blocks, activeBlock)
        len == Len(blocks)
        U   == ArrowUp(Cur)
        D   == ArrowDown(Cur)
    IN  /\ i >= 0
        /\ U.blocks = blocks /\ D.blocks = blocks
        /\ ~U.raised /\ ~D.raised
        /\ i >= 1 => /\ U.activeBlock = At(blocks, i - 1)
                     /\ ActiveIn(U) = {At(blocks, i - 1)}
                     /\ U.timers = Append(timers, child[At(blocks, i - 1)])
        /\ i = 0 => U = Cur
        /\ i < len - 1 => /\ D.activeBlock = At(blocks, i + 1)
                          /\ ActiveIn(D) = {At(blocks, i + 1)}
                          /\ D.timers = Append(timers, child[At(blocks, i + 1)])
        /\ i = len - 1 => D = Cur
        /\ IndexOf(U.blocks, U.activeBlock) = 0 =>
              ArrowUp(U) = U /\ ArrowUp(ArrowUp(U)) = U
        /\ IndexOf(D.blocks, D.activeBlock) = len - 1 =>
              ArrowDown(D) = D /\ ArrowDown(ArrowDown(D)) = D

\* C13 witness: the active block has been moved up to the top of a list of
\* three, off the newest block; a further arrowUp changes nothing and an
\* arrowDown takes it to the second block.
C13_Witness ==
    /\ Len(blocks) = 3
    /\ activeBlock = blocks[1]
    /\ blocks[1] # Len(child)
    /\ activeClass[blocks[1]]
    /\ timers # <<>> /\ timers[Len(timers)] = child[blocks[1]]
    /\ ArrowUp(Cur) = Cur
    /\ ArrowDown(Cur).activeBlock = blocks[2]

\* C14: findNearestBlockOfDOMNode returns block B for B's registered root
\* div and for every node below it at any depth (B's current content node
\* and the nodes nested in it, down to three levels below the root), and
\* null for every node with no registered node among its ancestors: the
\* mount element, a node outside the editor, and a content node detached
\* from its block together with everything nested in it.
C14_ResolveBlock ==
    /\ \A B \in blockOfDOMNode :
          /\ FindNearestBlockOfDOMNode(Cur, Surface("block", B, 0)) = B
          /\ \A d \in 0..MaxDepth :
                FindNearestBlockOfDOMNode(Cur, Surface("node", child[B], d)) = B
    /\ \A s \in Surfaces(Cur) :
          LET r == FindNearestBlockOfDOMNode(Cur, s)
          IN  /\ s.kind \in {"mount", "outside"} => r = Null
              /\ s.kind = "block" => r = (IF s.id \in blockOfDOMNode
                                          THEN s.id ELSE Null)
              /\ s.kind = "node" =>
                    r = (IF nodes[s.id].parentNode \in blockOfDOMNode
                         THEN nodes[s.id].parentNode ELSE Null)
              /\ r # Null => /\ r \in blockOfDOMNode
                             /\ s.kind = "node" => child[r] = s.id

\* C14 witness: a block other than the newest holds a content node that
\* replaced an earlier one; a node nested MaxDepth levels inside the new
\* content node resolves to the block, the same node inside the detached
\* one resolves to null.
C14_Witness ==
    \E B \in blockOfDOMNode, n \in 1..Len(nodes) :
        /\ B # Len(child)
        /\ nodes[n].parent = B
        /\ nodes[n].parentNode = Null
        /\ child[B] # n
        /\ FindNearestBlockOfDOMNode(Cur, Surface("node", child[B], MaxDepth)) = B
        /\ FindNearestBlockOfDOMNode(Cur, Surface("node", n, MaxDepth)) = Null

\* What a content transition of block B from state S to state R leaves
\* alone: the list, the DOM order, the active block and the active classes,
\* and the content node of every other block.  B holds a fresh node; its
\* old one is detached.
TransitionFrame(S, R, B) ==
    /\ R.blocks = S.blocks
    /\ IndexOf(R.blocks, B) = IndexOf(S.blocks, B)
    /\ R.mountChildren = S.mountChildren
    /\ R.activeBlock = S.activeBlock
    /\ R.activeClass = S.activeClass
    /\ Len(R.child) = Len(S.child)
    /\ \A c \in 1..Len(S.child) : c # B =>
          R.child[c] = S.child[c] /\ VariantOf(R, c) = VariantOf(S, c)
    /\ R.child[B] = Len(S.nodes) + 1
    /\ R.nodes[S.child[B]].parentNode = Null
    /\ ~R.raised

\* C15: a content transition of block B, a promotion by handleMutation or a
\* demotion by backspace, changes only B's content node: blocks, B's index,
\* the class of every other block, activeBlock and so B's active class are
\* unchanged.  Hence promoting a Text block to H1 and demoting it by a
\* backspace on its empty node gives back the same blocks in the same order,
\* the same active block and the same classes.
C15_TransitionFrame ==
    /\ \A s \in Surfaces(Cur), t \in Texts :
          LET B == FindNearestBlockOfDOMNode(Cur, s)
              P == HandleMutation(Cur, s, t)
              D == Backspace(Cur, s, t)
          IN  /\ (B # Null /\ HeadingFor(t) # "none") =>
                    TransitionFrame(Cur, P, B) /\ VariantOf(P, B) = HeadingFor(t)
              /\ (B # Null /\ t = "" /\ VariantOf(Cur, B) \in Headings) =>
                    TransitionFrame(Cur, D, B) /\ VariantOf(D, B) = "Text"
    /\ \A B \in blockOfDOMNode :
          VariantOf(Cur, B) = "Text" =>
            LET P == HandleMutation(Cur, Surface("node", child[B], 0), "# ")
                Q == Backspace(P, Surface("node", P.child[B], 0), "")
            IN  /\ VariantOf(P, B) = "H1"
                /\ Q.blocks = blocks
                /\ Q.mountChildren = mountChildren
                /\ Q.activeBlock = activeBlock
                /\ Q.activeClass = activeClass
                /\ \A c \in Created : VariantOf(Q, c) = VariantOf(Cur, c)
                /\ ~Q.raised

\* C15 witness: the block of a two-block list that is not the active one has
\* gone from Text to a heading and back to Text; it is still at index 0 and
\* the other block is still active.
C15_Witness ==
    /\ Len(blocks) = 2
    /\ Len(nodes) = 4
    /\ nodes[1].parentNode = Null
    /\ \E n \in 2..4 : /\ nodes[n].parent = 1
                        /\ nodes[n].variant \in Headings
                        /\ nodes[n].parentNode = Null
    /\ child[1] = 4
    /\ nodes[4].variant = "Text"
    /\ blocks[1] = 1
    /\ activeBlock = blocks[2]
    /\ activeClass[blocks[2]] /\ ~activeClass[1]

\* C16: after replaceBlockChild(B, child) the new content node, and every
\* node nested in it, resolves to B; the old content node, and every node
\* nested in it, resolves to no block.  The same holds when the replacement
\* is made by handleMutation or by backspace.
C16_NewResolvesOldDoesNot ==
    \A B \in blockOfDOMNode, d \in 0..MaxDepth :
        LET old == child[B]
            Resolves(R) ==
                /\ R.child[B] = Len(nodes) + 1
                /\ FindNearestBlockOfDOMNode(R, Surface("node", R.child[B], d)) = B
                /\ FindNearestBlockOfDOMNode(R, Surface("node", old, d)) = Null
        IN  /\ \A v \in Variants : Resolves(ReplaceBlockChild(Cur, B, v))
            /\ Resolves(HandleMutation(Cur, Surface("node", old, d), "## "))
            /\ VariantOf(Cur, B) \in Headings =>
                  Resolves(Backspace(Cur, Surface("node", old, d), ""))

\* C16 witness: a replacement has just run on block B: its new heading node
\* is the newest node, the focus timer for it is the latest one, and it
\* resolves to B while B's former node resolves to no block.
C16_Witness ==
    \E B \in blockOfDOMNode, n \in 1..Len(nodes) :
        /\ child[B] = Len(nodes)
        /\ n # child[B]
        /\ nodes[n].parent = B
        /\ VariantOf(Cur, B) \in Headings
        /\ timers # <<>> /\ timers[Len(timers)] = child[B]
        /\ FindNearestBlockOfDOMNode(Cur, Surface("node", child[B], 0)) = B
        /\ FindNearestBlockOfDOMNode(Cur, Surface("node", n, 0)) = Null

\* C17: when findNearestBlockOfDOMNode returns null for the node of the
\* event, backspace, handleMutation and the click listener each return
\* without raising and leave the whole state as it was: blocks, active
\* block, content classes, blockOfDOMNode and the pending focus timers.
C17_ResolutionMissNoOp ==
    \A s \in Surfaces(Cur) :
        FindNearestBlockOfDOMNode(Cur, s) = Null =>
            /\ Click(Cur, s) = Cur
            /\ ~Click(Cur, s).raised
            /\ \A t \in Texts :
                  /\ Backspace(Cur, s, t) = Cur
                  /\ HandleMutation(Cur, s, t) = Cur
                  /\ ~Backspace(Cur, s, t).raised
                  /\ ~HandleMutation(Cur, s, t).raised

\* C17 witness: a block of a two-block list has had its content node
\* replaced; the detached node resolves to null and the three handlers leave
\* the state alone on it, while on the node that replaced it a click, an
\* empty backspace and a "# " mutation each change the state.
C17_Witness ==
    \E n \in 1..Len(nodes) :
        LET old == Surface("node", n, 0)
            new == Surface("node", child[nodes[n].parent], 0)
        IN  /\ Len(blocks) = 2
            /\ nodes[n].parentNode = Null
            /\ FindNearestBlockOfDOMNode(Cur, old) = Null
            /\ Click(Cur, old) = Cur
            /\ Backspace(Cur, old, "") = Cur
            /\ HandleMutation(Cur, old, "# ") = Cur
            /\ Click(Cur, new) # Cur
            /\ Backspace(Cur, new, "") # Cur
            /\ HandleMutation(Cur, new, "# ") # Cur

\* Whether a focus timer for content node n is stale: the block it was set
\* for has been deleted, or holds another content node by now.
StaleTimer(n) ==
    \/ IndexOf(blocks, nodes[n].parent) < 0
    \/ child[nodes[n].parent] # n

\* C18: a focus timer that fires after the block it was set for has been
\* deleted, or after that block's content node has been replaced, does
\* nothing: focus stays where it is and nothing of the list changes; only
\* the timer itself is gone.
C18_StaleTimerNoOp ==
    (timers # <<>> /\ StaleTimer(Head(timers))) =>
        LET R == RunTimer(Cur)
        IN  /\ R.focus = focus
            /\ R = [Cur EXCEPT !.timers = Tail(timers)]
            /\ ~R.raised

\* C18 witness: the timer about to fire was set for a block that has been
\* deleted since, while another content node holds focus and keeps it.
C18_Witness ==
    /\ timers # <<>>
    /\ IndexOf(blocks, nodes[Head(timers)].parent) < 0
    /\ focus # Null
    /\ focus # Head(timers)
    /\ RunTimer(Cur).focus = focus

\* A state where the timer about to fire is for a content node that has been
\* replaced in a block that is still listed.
C18_ReplacedCase ==
    /\ timers # <<>>
    /\ IndexOf(blocks, nodes[Head(timers)].parent) >= 0
    /\ child[nodes[Head(timers)].parent] # Head(timers)
    /\ focus # Null

\* C19: once every pending focus timer has fired, the element holding focus
\* is the current content node of the active block; no sequence of events
\* leaves focus settled on a node of another block.
C19_FocusSettlesOnActive ==
    timers = <<>> => (activeBlock # Null /\ focus = child[activeBlock])

\* C20: a backspace that deletes an empty Text block other than the active
\* one (the list holding two or more blocks) leaves the active block the
\* same block as before the call.
C20_DeleteKeepsOtherActive ==
    [][\A B \in Created :
          ( /\ Len(blocks) >= 2
            /\ IndexOf(blocks, B) >= 0
            /\ B # activeBlock
            /\ VariantOf(Cur, B) = "Text"
            /\ focus # Null
            /\ FindNearestBlockOfDOMNode(Cur, Surface("node", focus, 0)) = B
            /\ StepTo(Backspace(Cur, Surface("node", focus, 0), "")) )
          => activeBlock' = activeBlock
      ]_vars

\* C21: a backspace on the empty node of a block that has been deleted from
\* the list removes no block from `blocks`, leaves activeBlock as it was and
\* does not throw.
C21_StaleBackspaceHarmless ==
    [][\A s \in Surfaces(Cur) :
          LET B == FindNearestBlockOfDOMNode(Cur, s)
          IN  ( /\ B # Null
                /\ IndexOf(blocks, B) < 0
                /\ StepTo(Backspace(Cur, s, "")) )
              => /\ blocks' = blocks
                 /\ activeBlock' = activeBlock
                 /\ ~Backspace(Cur, s, "").raised
      ]_vars

====
